---- MODULE Spec2Model ----
(***************************************************************************)
(* A model of the store returned by create() in src/index.ts: the closure  *)
(* variable `state`, the Set `listeners`, and the four operations          *)
(* getState / setState / subscribe / destroy, with re-entrant calls made   *)
(* from inside listeners during a notification pass.                       *)
(*                                                                         *)
(* JavaScript objects are modelled by a heap of records:                   *)
(* a reference is an index into `heap`, and `state` holds a reference.     *)
(* The Set is modelled by its ECMAScript [[SetData]] list: add appends,    *)
(* delete and clear overwrite entries with the marker Empty, and forEach   *)
(* walks the list by index, re-reading its length after every callback.    *)
(***************************************************************************)
EXTENDS Integers, Sequences, FiniteSets, TLC

\* ---- bounds of the model ----
MaxCalls == 4        \* store operations called in one run, nested calls included
MaxBodyOps == 2      \* subscribe/unsubscribe calls of one listener invocation (SpecLoop)
MaxHookOps == 3      \* renders, unmounts and setState calls in one run (SpecHook)

\* ---- values ----
Listeners == {"L1", "L2"}
Empty == "empty"                 \* a deleted entry of [[SetData]]
NoListener == "none"
FnInc == 100                     \* the function object stored under key inc
NaN == -1                        \* undefined + 1
EmptyObj == [k \in {} |-> 0]     \* the object literal {}

\* The state createState returns: {count: 0, name: 1, inc: () => set(...)}
InitialState == [count |-> 0, name |-> 1, inc |-> FnInc]

\* Partial<State> | ((state) => Partial<State>) as a tagged value
MapPartial(m) == [isFn |-> FALSE, map |-> m, f |-> "none"]
FnPartial(f) == [isFn |-> TRUE, map |-> EmptyObj, f |-> f]
IncUpdater == FnPartial("incCount")
Partials ==
  { MapPartial(EmptyObj),
    MapPartial([name |-> 2]),
    MapPartial([count |-> 0, name |-> 1]),
    FnPartial("toggleName") }

VARIABLES
  state,            \* reference held by `let state`
  heap,             \* heap[r]: the keys and values of object r
  entries,          \* [[SetData]] of `listeners`
  stack,            \* call stack: forEach frames and listener frames
  handles,          \* unsubscribe closures kept by callers
  base,             \* history: contents of state after createState / last destroy
  hist,             \* history: partials passed to setState since `base`
  unsubbed,         \* history: listeners unsubscribed and not subscribed since
  cleared,          \* history: listeners not subscribed since the last destroy
  destroyed,        \* history: destroy has been called
  lastOp,           \* history: the last store operation called
  snap,             \* a reference a reader got from getState, with what it saw
  createStateCalls, \* history: calls of createState
  ncalls,           \* history: store operations called so far
  phase,            \* create(): "creating" inside createState, then "created"
  build,            \* how the build treats `let state` read before line 100 ends
  sync,             \* history: calls of set and get made inside createState
  loopOps,          \* store calls made so far by the running listener
  hooks,            \* per component: the state of its useStore hooks
  hnote,            \* history, per component: its listener's last notification
  hops              \* history: renders, unmounts and setState calls so far

\* what the store operations of a created store leave alone
otherVars == <<phase, build, sync, loopOps, hooks, hnote, hops>>

vars == <<state, heap, entries, stack, handles, base, hist, unsubbed, cleared,
          destroyed, lastOp, snap, createStateCalls, ncalls, otherVars>>

\* ---- helpers ----
Max(a, b) == IF a > b THEN a ELSE b
Top(stk) == stk[Len(stk)]
Pop(stk) == SubSeq(stk, 1, Len(stk) - 1)

\* ---- the Set `listeners` (ECMAScript Set over the list [[SetData]]) ----
Has(es, v) == \E i \in 1..Len(es) : es[i] = v
Registered(es) == {es[i] : i \in 1..Len(es)} \ {Empty}

\* Set.prototype.add: an existing entry is kept where it is, a new one is appended
SetAdd(es, v) == IF Has(es, v) THEN es ELSE Append(es, v)

SetDeleteNothing(es, v) == es
SetDeleteAll(es, v) == [i \in 1..Len(es) |-> Empty]
\* Set.prototype.delete: the entry is replaced by the marker empty
SetDelete(es, v) == [i \in 1..Len(es) |-> IF es[i] = v THEN Empty ELSE es[i]]

SetClearNothing(es) == es
\* Set.prototype.clear: every entry is replaced by the marker empty
SetClear(es) == [i \in 1..Len(es) |-> Empty]

\* Empty entries are unobservable once no forEach is walking the list
Settle(es, stk) == IF stk = <<>> THEN SelectSeq(es, LAMBDA e : e # Empty) ELSE es

\* ---- objects ----
AssignOneTargetWins(t, s) == t @@ s
\* one source of Object.assign: the source's own keys overwrite the target's
AssignOne(t, s) == s @@ t

RECURSIVE ObjectAssign(_, _)
\* Object.assign(target, ...sources), sources applied left to right
ObjectAssign(t, srcs) ==
  IF srcs = <<>> THEN t
  ELSE ObjectAssign(AssignOne(t, Head(srcs)), Tail(srcs))

\* the updater functions of the model, applied to the object s
ApplyUpdater(f, s) ==
  IF f = "incCount"
  THEN [count |-> IF "count" \in DOMAIN s /\ s["count"] # NaN
                  THEN s["count"] + 1 ELSE NaN]
  ELSE [name |-> IF "name" \in DOMAIN s /\ s["name"] = 1 THEN 2 ELSE 1]

ResolvePartialStale(p, s) == IF p.isFn THEN ApplyUpdater(p.f, InitialState) ELSE p.map
\* typeof partialState === 'function' ? partialState(state) : partialState
ResolvePartial(p, s) == IF p.isFn THEN ApplyUpdater(p.f, s) ELSE p.map

InPlaceRef(h, st) == st
\* the object literal {} allocates a fresh object
NewStateRef(h, st) == Len(h) + 1

KeepState(s) == s
\* state = {} as State
DestroyState(s) == EmptyObj

WriteObj(h, r, obj) ==
  [i \in 1..Max(Len(h), r) |-> IF i = r THEN obj ELSE h[i]]

\* ---- call stack ----
ForEachFrame(merged, es) ==
  [kind |-> "forEach", index |-> 0, merged |-> merged,
   start |-> Registered(es), removedBefore |-> {}, removed |-> {},
   calls |-> [l \in Listeners |-> 0],
   l |-> NoListener, arg |-> 0, seen |-> EmptyObj, newest |-> 0]

ListenerFrame(l, arg, h) ==
  [kind |-> "listener", index |-> 0, merged |-> 0,
   start |-> {}, removedBefore |-> {}, removed |-> {},
   calls |-> [x \in Listeners |-> 0],
   l |-> l, arg |-> arg, seen |-> h[arg], newest |-> Len(h)]

SnapshotArg(st, fr) == fr.merged
\* listener => listener(state): `state` is read when the callback runs
ListenerArg(st, fr) == st

\* a store call can be made by top-level code or by the running listener
CanCall ==
  /\ phase = "created"
  /\ ncalls < MaxCalls
  /\ IF stack = <<>> THEN TRUE ELSE Top(stack).kind = "listener"

\* history kept in the forEach frames: listeners removed during the pass
NoteRemoved(stk, R) ==
  [i \in 1..Len(stk) |->
     IF stk[i].kind = "forEach"
     THEN [stk[i] EXCEPT
             !.removed = @ \cup R,
             !.removedBefore = @ \cup {l \in R : stk[i].calls[l] = 0}]
     ELSE stk[i]]

NoOp == [op |-> "none", prev |-> 0, l |-> NoListener]
NoSnap == [ref |-> 0, seen |-> EmptyObj]

\* ---- components that call useStore ----
Components == {"A", "B"}

CompIndex(c) == IF c = "A" THEN 1 ELSE 2

\* ---- values of the binding hook ----
\* a function value: what it computes and which function object it is;
\* id 0 is a function created once, id k > 0 the arrow function created by
\* the k-th render of the component
NoFn == [body |-> "none", id |-> 0]
GetStateFn == [body |-> "whole", id |-> 0]
SelectorBodies == {"count", "name", "pair"}
NoDeps == 0                      \* the argument `dependencies` left undefined
DepsValues == {NoDeps, 1, 2}     \* undefined, or the one-entry lists [1], [2]

\* a slice: a primitive (obj FALSE, v.prim its value) or an object (its own
\* keys and values v, its identity id)
NoSlice == [obj |-> FALSE, v |-> EmptyObj, id |-> 0]

\* selector(state) for the selectors of the model:
\*   count: s => s.count      name: s => s.name
\*   pair:  s => ({count: s.count}), a new object at every call
\*   whole: getState, the state object itself
Select(body, h, ref, fresh) ==
  IF body = "count" THEN [obj |-> FALSE, v |-> [prim |-> h[ref]["count"]], id |-> 0]
  ELSE IF body = "name" THEN [obj |-> FALSE, v |-> [prim |-> h[ref]["name"]], id |-> 0]
  ELSE IF body = "pair" THEN [obj |-> TRUE, v |-> [count |-> h[ref]["count"]], id |-> fresh]
  ELSE [obj |-> TRUE, v |-> h[ref], id |-> 0 - ref]

\* a === b on function values
SameFn(a, b) == a = b

\* Object.is(a, b) on slices
SameValue(a, b) ==
  /\ a.obj = b.obj
  /\ IF a.obj THEN a.id = b.id ELSE a.v = b.v

\* shallowEqual(a, b) of ./shallowEqual: the same value, or two mappings
\* with the same keys holding the same values
ShallowEqual(a, b) ==
  \/ SameValue(a, b)
  \/ a.obj /\ b.obj /\ a.v = b.v

NoMemo == [fn |-> NoFn, deps |-> NoDeps]

\* useCallback(fn, deps): the function of the previous render when both
\* renders gave a dependency list and the lists hold the same entries
UseCallback(memo, first, fn, deps) ==
  IF ~first /\ deps # NoDeps /\ memo.deps # NoDeps /\ memo.deps = deps
  THEN memo.fn
  ELSE fn

\* the reducer of line 20 run over the dispatched values: the last one wins
Reduce(s, queue) == IF queue = <<>> THEN s ELSE queue[Len(queue)]

HookUnmounted ==
  [phase |-> "unmounted",        \* unmounted, rendering (awaits commit), idle
   renders |-> 0,                \* history: renders of this instance
   memo |-> NoMemo,              \* useCallback: [function, dependency list]
   selectState |-> NoFn,         \* the last render's selectState
   stateSlice |-> NoSlice,       \* the last render's stateSlice (returned)
   selectStateRef |-> NoFn,      \* selectStateRef.current
   stateSliceRef |-> NoSlice,    \* stateSliceRef.current
   reducerState |-> NoSlice,     \* useReducer: its state
   queue |-> <<>>,               \* useReducer: dispatched, not yet rendered
   effectDeps |-> [fn |-> NoFn, slice |-> NoSlice],  \* deps of line 84
   runEffect |-> FALSE,          \* the effect of lines 81-84 runs at commit
   first |-> FALSE,              \* the last render was the mounting one
   changed |-> FALSE,            \* line 75 re-derived the slice in it
   storeAt |-> 0,                \* history: `state` at the last render
   everChanged |-> FALSE,        \* history: line 75 has re-derived once
   committedSel |-> NoFn,        \* history: selectState of the last commit
   committedSlice |-> NoSlice]   \* history: stateSlice of the last commit

NoNote == [signalled |-> FALSE, n |-> 0, sel |-> NoFn, against |-> NoSlice,
           new |-> NoSlice, prev |-> NoSlice, pendingBefore |-> FALSE]

NoSync == [get |-> "none", set |-> "none", map |-> EmptyObj]

\* the variables of create() and of the bindings, for a created store with
\* no component
OtherInit ==
  /\ phase = "created"
  /\ build = "hoisted"
  /\ sync = NoSync
  /\ loopOps = 0
  /\ hooks = [c \in Components |-> HookUnmounted]
  /\ hnote = [c \in Components |-> NoNote]
  /\ hops = 0

\* ---- the store after create(createState) has returned ----
Init ==
  /\ heap = <<InitialState>>
  /\ state = 1
  /\ entries = <<>>
  /\ stack = <<>>
  /\ handles = <<>>
  /\ base = InitialState
  /\ hist = <<>>
  /\ unsubbed = {}
  /\ cleared = {}
  /\ destroyed = FALSE
  /\ lastOp = NoOp
  /\ snap = NoSnap
  /\ createStateCalls = 1
  /\ ncalls = 0
  /\ OtherInit

\* setState(partialState), lines 33-40, up to the start of listeners.forEach
SetStateCall(p, opName) ==
  /\ CanCall
  /\ ncalls' = ncalls + 1
  /\ LET r == NewStateRef(heap, state)
         obj == ObjectAssign(EmptyObj,
                             <<heap[state], ResolvePartial(p, heap[state])>>)
     IN /\ heap' = WriteObj(heap, r, obj)
        /\ state' = r
        /\ stack' = Append(stack, ForEachFrame(r, entries))
  /\ hist' = Append(hist, p)
  /\ lastOp' = [op |-> opName, prev |-> state, l |-> NoListener]
  /\ UNCHANGED <<entries, handles, base, unsubbed, cleared, destroyed, snap,
                 createStateCalls, otherVars>>

SetState(p) == SetStateCall(p, "setState")

StateAssignedBeforeThrow(st, r) == r
\* state = Object.assign({}, state, partialState(state)) with an updater that
\* throws: the right-hand side never yields a value, `state` is not assigned
StateOnThrow(st, r) == st

\* setState(partialState), lines 33-40, when partialState(state) throws; the
\* error leaves setState and, unless the calling listener catches it, every
\* forEach and setState below it
SetStateThrows(caught) ==
  /\ CanCall
  /\ ncalls' = ncalls + 1
  /\ caught \/ stack # <<>>
  /\ LET r == NewStateRef(heap, state)
     IN /\ state' = StateOnThrow(state, r)
        /\ heap' = IF state' = state THEN heap
                   ELSE WriteObj(heap, state', heap[state])
  /\ stack' = IF caught THEN stack ELSE <<>>
  /\ entries' = Settle(entries, stack')
  /\ lastOp' = [op |-> "setStateThrew", prev |-> state, l |-> NoListener]
  /\ UNCHANGED <<handles, base, hist, unsubbed, cleared, destroyed, snap,
                 createStateCalls, otherVars>>

\* the action inc: () => set(s => ({count: s.count + 1})) placed on the state
Inc == SetStateCall(IncUpdater, "inc")

\* listeners.forEach: the next entry is a listener, which is called
NotifyNext ==
  /\ stack # <<>>
  /\ Top(stack).kind = "forEach"
  /\ Top(stack).index < Len(entries)
  /\ entries[Top(stack).index + 1] # Empty
  /\ LET n == Len(stack)
         l == entries[Top(stack).index + 1]
     IN stack' = Append([stack EXCEPT ![n].index = @ + 1,
                                      ![n].calls[l] = @ + 1],
                        ListenerFrame(l, ListenerArg(state, Top(stack)), heap))
  /\ UNCHANGED <<state, heap, entries, handles, base, hist, unsubbed, cleared,
                 destroyed, lastOp, snap, createStateCalls, ncalls, otherVars>>

\* listeners.forEach: the next entry was deleted, it is passed over
NotifySkip ==
  /\ stack # <<>>
  /\ Top(stack).kind = "forEach"
  /\ Top(stack).index < Len(entries)
  /\ entries[Top(stack).index + 1] = Empty
  /\ stack' = [stack EXCEPT ![Len(stack)].index = @ + 1]
  /\ UNCHANGED <<state, heap, entries, handles, base, hist, unsubbed, cleared,
                 destroyed, lastOp, snap, createStateCalls, ncalls, otherVars>>

\* listeners.forEach has passed the end of the list: setState returns
NotifyDone ==
  /\ stack # <<>>
  /\ Top(stack).kind = "forEach"
  /\ Top(stack).index >= Len(entries)
  /\ stack' = Pop(stack)
  /\ entries' = Settle(entries, stack')
  /\ UNCHANGED <<state, heap, handles, base, hist, unsubbed, cleared,
                 destroyed, lastOp, snap, createStateCalls, ncalls, otherVars>>

\* the running listener returns to forEach
ListenerReturn ==
  /\ stack # <<>>
  /\ Top(stack).kind = "listener"
  /\ stack' = Pop(stack)
  /\ UNCHANGED <<state, heap, entries, handles, base, hist, unsubbed, cleared,
                 destroyed, lastOp, snap, createStateCalls, ncalls, otherVars>>

\* getState(), line 42; the caller keeps the reference
GetState ==
  /\ CanCall
  /\ ncalls' = ncalls + 1
  /\ snap' = [ref |-> state, seen |-> heap[state]]
  /\ stack' = stack
  /\ lastOp' = [op |-> "getState", prev |-> state, l |-> NoListener]
  /\ UNCHANGED <<state, heap, entries, handles, base, hist, unsubbed, cleared,
                 destroyed, createStateCalls, otherVars>>

\* subscribe(listener), lines 44-49; the returned closure is kept in `handles`
Subscribe(l) ==
  /\ CanCall
  /\ ncalls' = ncalls + 1
  /\ entries' = SetAdd(entries, l)
  /\ handles' = Append(handles, [l |-> l, calls |-> 0])
  /\ stack' = stack
  /\ unsubbed' = unsubbed \ {l}
  /\ cleared' = cleared \ {l}
  /\ lastOp' = [op |-> "subscribe", prev |-> state, l |-> l]
  /\ UNCHANGED <<state, heap, base, hist, destroyed, snap, createStateCalls, otherVars>>

\* the closure returned by subscribe, lines 46-48
Unsubscribe(h) ==
  /\ CanCall
  /\ ncalls' = ncalls + 1
  /\ h \in 1..Len(handles)
  /\ LET l == handles[h].l
     IN /\ stack' = NoteRemoved(stack,
                                IF Has(entries, l) THEN {l} ELSE {})
        /\ entries' = Settle(SetDelete(entries, l), stack')
        /\ unsubbed' = unsubbed \cup {l}
        /\ lastOp' = [op |-> "unsubscribe", prev |-> state, l |-> l]
  /\ handles' = [handles EXCEPT ![h].calls = @ + 1]
  /\ UNCHANGED <<state, heap, base, hist, cleared, destroyed, snap,
                 createStateCalls, otherVars>>

\* destroy(), lines 51-54
Destroy ==
  /\ CanCall
  /\ ncalls' = ncalls + 1
  /\ stack' = NoteRemoved(stack, Registered(entries))
  /\ entries' = Settle(SetClear(entries), stack')
  /\ LET r == NewStateRef(heap, state)
     IN /\ heap' = WriteObj(heap, r, DestroyState(heap[state]))
        /\ state' = r
  /\ base' = heap'[state']
  /\ hist' = <<>>
  /\ cleared' = Listeners
  /\ destroyed' = TRUE
  /\ lastOp' = [op |-> "destroy", prev |-> state, l |-> NoListener]
  /\ UNCHANGED <<handles, unsubbed, snap, createStateCalls, otherVars>>

Next ==
  \/ \E p \in Partials : SetState(p)
  \/ Inc
  \/ \E caught \in BOOLEAN : SetStateThrows(caught)
  \/ NotifyNext
  \/ NotifySkip
  \/ NotifyDone
  \/ ListenerReturn
  \/ GetState
  \/ \E l \in Listeners : Subscribe(l)
  \/ \E h \in 1..MaxCalls : Unsubscribe(h)
  \/ Destroy

Spec == Init /\ [][Next]_vars

\* ---- create() while createState(setState, getState) is running, line 100 ----
Builds == {"tdz", "hoisted"}

\* reading `state` before `let state = createState(...)` has completed: the
\* binding is uninitialized (ReferenceError), or, where the build turns the
\* declaration into a hoisted var, it holds undefined
ReadStateInCreate(b) == IF b = "tdz" THEN "ReferenceError" ELSE "undefined"

CreatedStateKeepsSync(returned, during) == during @@ returned
\* let state = createState(...): the value createState returns is assigned,
\* whatever setState assigned while createState was running
CreatedState(returned, during) == returned

InitCreate ==
  /\ heap = <<>>
  /\ state = 0
  /\ entries = <<>>
  /\ stack = <<>>
  /\ handles = <<>>
  /\ base = EmptyObj
  /\ hist = <<>>
  /\ unsubbed = {}
  /\ cleared = {}
  /\ destroyed = FALSE
  /\ lastOp = NoOp
  /\ snap = NoSnap
  /\ createStateCalls = 1
  /\ ncalls = 0
  /\ phase = "creating"
  /\ build \in Builds
  /\ sync = NoSync
  /\ loopOps = 0
  /\ hooks = [c \in Components |-> HookUnmounted]
  /\ hnote = [c \in Components |-> NoNote]
  /\ hops = 0

\* get() called inside createState: getState, line 42
CreateGet ==
  /\ phase = "creating"
  /\ sync.get = "none"
  /\ LET got == IF state = 0 THEN ReadStateInCreate(build) ELSE "state"
     IN /\ sync' = [sync EXCEPT !.get = got]
        /\ phase' = IF got = "ReferenceError" THEN "failed" ELSE phase
  /\ UNCHANGED <<state, heap, entries, stack, handles, base, hist, unsubbed,
                 cleared, destroyed, lastOp, snap, createStateCalls, ncalls,
                 build, loopOps, hooks, hnote, hops>>

\* set(p) called inside createState: setState, lines 33-40, with no listener
\* registered yet; an updater applied to undefined reads a property of it
CreateSet(p) ==
  /\ phase = "creating"
  /\ sync.set = "none"
  /\ LET read == IF state = 0 THEN ReadStateInCreate(build) ELSE "state"
         out == IF read = "ReferenceError" THEN read
                ELSE IF read = "undefined" /\ p.isFn THEN "TypeError"
                ELSE "done"
         old == IF state = 0 THEN EmptyObj ELSE heap[state]
         r == NewStateRef(heap, state)
     IN /\ sync' = [sync EXCEPT !.set = out, !.map = IF out = "done"
                                                     THEN ResolvePartial(p, old)
                                                     ELSE EmptyObj]
        /\ phase' = IF out = "done" THEN phase ELSE "failed"
        /\ IF out = "done"
           THEN /\ heap' = WriteObj(heap, r,
                             ObjectAssign(EmptyObj, <<old, ResolvePartial(p, old)>>))
                /\ state' = r
           ELSE UNCHANGED <<heap, state>>
  /\ UNCHANGED <<entries, stack, handles, base, hist, unsubbed,
                 cleared, destroyed, lastOp, snap, createStateCalls, ncalls,
                 build, loopOps, hooks, hnote, hops>>

\* createState returns and line 100 assigns `state`; create returns the api
CreateReturn ==
  /\ phase = "creating"
  /\ LET r == Len(heap) + 1
         during == IF state = 0 THEN EmptyObj ELSE heap[state]
     IN /\ heap' = WriteObj(heap, r, CreatedState(InitialState, during))
        /\ state' = r
        /\ base' = heap'[r]
  /\ phase' = "created"
  /\ UNCHANGED <<entries, stack, handles, hist, unsubbed,
                 cleared, destroyed, lastOp, snap, createStateCalls, ncalls,
                 build, sync, loopOps, hooks, hnote, hops>>

NextCreate ==
  \/ CreateGet
  \/ \E p \in Partials : CreateSet(p)
  \/ CreateReturn
  \/ \E p \in Partials : SetState(p)
  \/ Inc
  \/ GetState
  \/ NotifyDone

SpecCreate == InitCreate /\ [][NextCreate]_vars

\* ---- notification passes whose listeners subscribe and unsubscribe ----
\* The listeners make no setState call and at most MaxBodyOps calls of
\* subscribe and unsubscribe per invocation, as often as they are invoked.
\* The entry list is kept without its deleted entries, the index of the
\* running forEach moved accordingly: forEach visits the same entries.

\* the entries of es that forEach can still reach or has visited
Compact(es) == SelectSeq(es, LAMBDA e : e # Empty)

\* the forEach index after the deleted entries of es are dropped
CompactIndex(es, index) ==
  Cardinality({i \in 1..Len(es) : i <= index /\ es[i] # Empty})

CompactStack(stk, es) ==
  [i \in 1..Len(stk) |->
     IF stk[i].kind = "forEach"
     THEN [stk[i] EXCEPT !.index = CompactIndex(es, @)]
     ELSE stk[i]]

LoopCanCall ==
  IF stack = <<>> THEN TRUE
  ELSE Top(stack).kind = "listener" /\ loopOps < MaxBodyOps

LoopCalled == IF stack = <<>> THEN loopOps ELSE loopOps + 1

\* setState(partialState) called by top-level code, lines 33-38
LoopSetState(p) ==
  /\ stack = <<>>
  /\ ncalls < MaxCalls
  /\ ncalls' = ncalls + 1
  /\ LET r == NewStateRef(heap, state)
         obj == ObjectAssign(EmptyObj,
                             <<heap[state], ResolvePartial(p, heap[state])>>)
     IN /\ heap' = WriteObj(heap, r, obj)
        /\ state' = r
        /\ stack' = <<ForEachFrame(r, entries)>>
  /\ UNCHANGED <<entries, handles, base, hist, unsubbed, cleared, destroyed,
                 lastOp, snap, createStateCalls, otherVars>>

\* listeners.forEach, line 39: the next entry is called
LoopNotifyNext ==
  /\ stack # <<>>
  /\ Top(stack).kind = "forEach"
  /\ Top(stack).index < Len(entries)
  /\ LET l == entries[Top(stack).index + 1]
     IN stack' = Append([stack EXCEPT ![Len(stack)].index = @ + 1],
                        ListenerFrame(l, ListenerArg(state, Top(stack)), heap))
  /\ loopOps' = 0
  /\ UNCHANGED <<state, heap, entries, handles, base, hist, unsubbed, cleared,
                 destroyed, lastOp, snap, createStateCalls, ncalls,
                 phase, build, sync, hooks, hnote, hops>>

\* listeners.forEach, line 39: past the last entry, setState returns
LoopNotifyDone ==
  /\ stack # <<>>
  /\ Top(stack).kind = "forEach"
  /\ Top(stack).index >= Len(entries)
  /\ stack' = Pop(stack)
  /\ UNCHANGED <<state, heap, entries, handles, base, hist, unsubbed, cleared,
                 destroyed, lastOp, snap, createStateCalls, ncalls, otherVars>>

\* the running listener returns to forEach
LoopListenerReturn ==
  /\ stack # <<>>
  /\ Top(stack).kind = "listener"
  /\ stack' = Pop(stack)
  /\ loopOps' = 0
  /\ UNCHANGED <<state, heap, entries, handles, base, hist, unsubbed, cleared,
                 destroyed, lastOp, snap, createStateCalls, ncalls,
                 phase, build, sync, hooks, hnote, hops>>

\* subscribe(l), lines 44-45, by top-level code or the running listener
LoopSubscribe(l) ==
  /\ LoopCanCall
  /\ entries' = SetAdd(entries, l)
  /\ unsubbed' = unsubbed \ {l}
  /\ loopOps' = LoopCalled
  /\ UNCHANGED <<state, heap, stack, handles, base, hist, cleared, destroyed,
                 lastOp, snap, createStateCalls, ncalls,
                 phase, build, sync, hooks, hnote, hops>>

\* a closure returned by subscribe(l), lines 46-48
LoopUnsubscribe(l) ==
  /\ LoopCanCall
  /\ Has(entries, l) \/ l \in unsubbed
  /\ LET es == SetDelete(entries, l)
     IN /\ entries' = Compact(es)
        /\ stack' = CompactStack(stack, es)
  /\ unsubbed' = unsubbed \cup {l}
  /\ loopOps' = LoopCalled
  /\ UNCHANGED <<state, heap, handles, base, hist, cleared, destroyed,
                 lastOp, snap, createStateCalls, ncalls,
                 phase, build, sync, hooks, hnote, hops>>

\* the steps the running code takes by itself
LoopRun == LoopNotifyNext \/ LoopNotifyDone \/ LoopListenerReturn

NextLoop ==
  \/ \E p \in Partials : LoopSetState(p)
  \/ LoopNotifyNext
  \/ LoopNotifyDone
  \/ LoopListenerReturn
  \/ \E l \in Listeners : LoopSubscribe(l)
  \/ \E l \in Listeners : LoopUnsubscribe(l)

\* JavaScript runs the call to completion: code that can continue does
SpecLoop == Init /\ [][NextLoop]_vars /\ WF_vars(LoopRun)

\* ---- useStore, lines 56-98, one instance per component ----
HookPartials == Partials \cup {IncUpdater}

HookBudget == hops < MaxHookOps

RenderSliceNeverRederived(changed, reduced, derived) == reduced
\* line 75: if (selectState !== selectStateRef.current) stateSlice = selectState(state)
RenderSlice(changed, reduced, derived) == IF changed THEN derived ELSE reduced

\* the component function runs useStore(selector, dependencies): lines 66-78
\* and 97. body "whole" stands for a call without selector.
Render(c, body, deps) ==
  /\ phase = "created"
  /\ HookBudget
  /\ hooks[c].phase \in {"unmounted", "idle"}
  /\ body = "whole" => deps = NoDeps
  /\ LET h == hooks[c]
         first == h.phase = "unmounted"
         k == h.renders + 1
         stateSelector == IF body = "whole" THEN GetStateFn
                          ELSE [body |-> body, id |-> k]
         selectState == UseCallback(h.memo, first, stateSelector, deps)
         selRef == IF first THEN selectState ELSE h.selectStateRef
         fresh == 10 * (hops + 1) + CompIndex(c)
         derived == Select(selectState.body, heap, state, fresh)
         reduced == IF first THEN derived ELSE Reduce(h.reducerState, h.queue)
         changed == ~SameFn(selectState, selRef)
         stateSlice == RenderSlice(changed, reduced, derived)
         sliceRef == IF first THEN stateSlice ELSE h.stateSliceRef
     IN hooks' = [hooks EXCEPT ![c] =
          [h EXCEPT
             !.phase = "rendering",
             !.renders = k,
             !.memo = [fn |-> selectState, deps |-> deps],
             !.selectState = selectState,
             !.stateSlice = stateSlice,
             !.selectStateRef = selRef,
             !.stateSliceRef = sliceRef,
             !.reducerState = reduced,
             !.queue = <<>>,
             !.effectDeps = [fn |-> selectState, slice |-> stateSlice],
             !.runEffect = first \/ ~SameFn(selectState, h.effectDeps.fn)
                                 \/ ~SameValue(stateSlice, h.effectDeps.slice),
             !.first = first,
             !.changed = changed,
             !.storeAt = state,
             !.everChanged = h.everChanged \/ changed]]
  /\ hops' = hops + 1
  /\ UNCHANGED <<state, heap, entries, stack, handles, base, hist, unsubbed,
                 cleared, destroyed, lastOp, snap, createStateCalls, ncalls,
                 phase, build, sync, loopOps, hnote>>

CommitRefsStale(h) == <<h.selectStateRef, h.stateSliceRef>>
\* the layout effect of lines 81-84, run when its dependencies changed
CommitRefs(h) ==
  IF h.runEffect THEN <<h.selectState, h.stateSlice>>
  ELSE <<h.selectStateRef, h.stateSliceRef>>

\* the render is committed and its layout effects run: lines 81-84, and on
\* mount lines 87-95, which subscribe the listener of this instance
Commit(c) ==
  /\ phase = "created"
  /\ hooks[c].phase = "rendering"
  /\ LET h == hooks[c]
     IN /\ hooks' = [hooks EXCEPT ![c] =
              [h EXCEPT
                 !.phase = "idle",
                 !.selectStateRef = CommitRefs(h)[1],
                 !.stateSliceRef = CommitRefs(h)[2],
                 !.runEffect = FALSE,
                 !.committedSel = h.selectState,
                 !.committedSlice = h.stateSlice]]
        /\ entries' = IF h.first THEN SetAdd(entries, c) ELSE entries
  /\ UNCHANGED <<state, heap, stack, handles, base, hist, unsubbed,
                 cleared, destroyed, lastOp, snap, createStateCalls, ncalls,
                 phase, build, sync, loopOps, hnote, hops>>

CleanupKeepsListener(es, c) == es
\* the cleanup of the effect of lines 87-95: the closure subscribe returned
Cleanup(es, c) == SetDelete(es, c)

\* the component unmounts: the cleanup of the effect of lines 87-95 calls the
\* closure subscribe returned
Unmount(c) ==
  /\ phase = "created"
  /\ HookBudget
  /\ hooks[c].phase = "idle"
  /\ hooks' = [hooks EXCEPT ![c] = HookUnmounted]
  /\ entries' = Settle(Cleanup(entries, c), stack)
  /\ hnote' = [hnote EXCEPT ![c] = NoNote]
  /\ hops' = hops + 1
  /\ UNCHANGED <<state, heap, stack, handles, base, hist, unsubbed,
                 cleared, destroyed, lastOp, snap, createStateCalls, ncalls,
                 phase, build, sync, loopOps>>

\* line 90: selectStateRef.current
ListenerSelector(h) == h.selectStateRef

\* the listener of lines 88-94 of component c, called with the store at
\* `ref`: the hook state it leaves
Notified(h, c, hp, ref, fresh) ==
  LET selectedSlice == Select(ListenerSelector(h).body, hp, ref, fresh)
  IN IF ~ShallowEqual(h.stateSliceRef, selectedSlice)
     THEN [h EXCEPT !.queue = Append(@, selectedSlice)]
     ELSE h

\* history: what the listener of c did in the notification for state `ref`,
\* the previous state being `old`
Note(h, c, hp, ref, old, fresh, n) ==
  [signalled |-> Notified(h, c, hp, ref, fresh).queue # h.queue,
   n |-> n,
   sel |-> ListenerSelector(h),
   against |-> h.stateSliceRef,
   new |-> Select(h.selectStateRef.body, hp, ref, fresh),
   prev |-> Select(h.selectStateRef.body, hp, old, fresh + 5),
   pendingBefore |-> h.queue # <<>> \/ h.phase = "rendering"]

\* setState(partialState), lines 33-40, called outside any listener: the
\* merge, then forEach calls the listener of every subscribed component
HookSetState(p) ==
  /\ phase = "created"
  /\ HookBudget
  /\ stack = <<>>
  /\ LET r == NewStateRef(heap, state)
         obj == ObjectAssign(EmptyObj,
                             <<heap[state], ResolvePartial(p, heap[state])>>)
         hp == WriteObj(heap, r, obj)
     IN /\ heap' = hp
        /\ state' = r
        /\ hooks' = [c \in Components |->
                       IF Has(entries, c)
                       THEN Notified(hooks[c], c, hp, r,
                                     10 * (hops + 1) + CompIndex(c))
                       ELSE hooks[c]]
        /\ hnote' = [c \in Components |->
                       IF Has(entries, c)
                       THEN Note(hooks[c], c, hp, r, state,
                                 10 * (hops + 1) + CompIndex(c), hops + 1)
                       ELSE hnote[c]]
  /\ hist' = Append(hist, p)
  /\ hops' = hops + 1
  /\ UNCHANGED <<entries, stack, handles, base, unsubbed,
                 cleared, destroyed, lastOp, snap, createStateCalls, ncalls,
                 phase, build, sync, loopOps>>

NextHook ==
  \/ \E c \in Components, b \in SelectorBodies \cup {"whole"}, d \in DepsValues :
       Render(c, b, d)
  \/ \E c \in Components : Commit(c)
  \/ \E c \in Components : Unmount(c)
  \/ \E p \in HookPartials : HookSetState(p)

SpecHook == Init /\ [][NextHook]_vars

TypeOK ==
  /\ state \in 1..Len(heap)
  /\ ncalls <= MaxCalls
  /\ \A i \in 1..Len(entries) : entries[i] \in Listeners \cup Components \cup {Empty}

\* ---- vocabulary of the claims ----
\* the shallow merge of delta d onto s: d's keys win, the others are kept
ShallowMerge(s, d) ==
  [k \in DOMAIN s \cup DOMAIN d |-> IF k \in DOMAIN d THEN d[k] ELSE s[k]]

\* the mapping a partial stands for when the state is s
Delta(p, s) == IF p.isFn THEN ApplyUpdater(p.f, s) ELSE p.map

RECURSIVE MergeAll(_, _)
MergeAll(s, ps) ==
  IF ps = <<>> THEN s
  ELSE MergeAll(ShallowMerge(s, Delta(Head(ps), s)), Tail(ps))

\* this step calls listener l
InvokedNow(l) ==
  /\ Len(stack') = Len(stack) + 1
  /\ Top(stack').kind = "listener"
  /\ Top(stack').l = l

\* this step calls the unsubscribe closure h
UnsubscribedNow(h) == handles'[h].calls > handles[h].calls

ForEachFrames == {i \in 1..Len(stack) : stack[i].kind = "forEach"}
ListenerFrames == {i \in 1..Len(stack) : stack[i].kind = "listener"}

\* frame i is a notification pass that has visited every entry
PassComplete(i) ==
  /\ i = Len(stack)
  /\ stack[i].kind = "forEach"
  /\ stack[i].index >= Len(entries)

\* C1: after any sequence of setState calls on the created store, the state
\* is the left-to-right shallow merge of the resolved partials onto the
\* state createState returned.
C1_StateIsMergeOfPartials ==
  ~destroyed => heap[state] = MergeAll(InitialState, hist)

C1_Witness ==
  /\ ~destroyed
  /\ Len(hist) >= 3
  /\ \E i \in 1..Len(hist) : hist[i].isFn
  /\ \E i \in 1..Len(hist) : ~hist[i].isFn /\ hist[i].map # EmptyObj
  /\ heap[state] # InitialState
  /\ Len(stack) >= 3

\* C2: in every notification pass, each listener registered when the call
\* started and not removed before its turn is invoked exactly once.
C2_ExactlyOncePerPass ==
  \A i \in ForEachFrames :
    \A l \in stack[i].start \ stack[i].removedBefore :
      /\ stack[i].calls[l] <= 1
      /\ PassComplete(i) => stack[i].calls[l] = 1

\* C3 as stated: the argument of every listener invocation is the state
\* produced by the merge of the setState call whose pass made the invocation.
C3_ArgIsStateOfOwnPass ==
  \A i \in ListenerFrames : stack[i].arg = stack[i - 1].merged

\* C3 as amended: the argument of every listener invocation is the state the
\* store holds at the moment of the invocation, the most recently installed
\* one, and it is never older than the state of the invoking pass's merge.
C3_ArgIsCurrentState ==
  \A i \in ListenerFrames :
    /\ stack[i].arg = stack[i].newest
    /\ stack[i].arg >= stack[i - 1].merged

C3_Witness ==
  \E i \in ListenerFrames : stack[i].arg > stack[i - 1].merged

\* C4: a listener whose unsubscribe function has been called is not invoked
\* again until it is subscribed again, also when the call is made by another
\* listener during a pass in which its turn has not come.
C4_NoCallAfterUnsubscribe ==
  [][\A l \in unsubbed : ~InvokedNow(l)]_vars

C4_Witness ==
  \E i \in ForEachFrames :
    /\ PassComplete(i)
    /\ \E l \in stack[i].start \cap stack[i].removedBefore \cap unsubbed :
         stack[i].calls[l] = 0
    /\ \E k \in Listeners : stack[i].calls[k] = 1
    /\ ~destroyed

\* C5 as stated: a second call of an unsubscribe function leaves the
\* listener registry and the state unchanged, in every reachable state.
C5_SecondCallIsNoOp ==
  [][\A h \in 1..Len(handles) :
       (UnsubscribedNow(h) /\ handles[h].calls >= 1)
         => /\ Registered(entries') = Registered(entries)
            /\ state' = state]_vars

\* C5 as amended: an unsubscribe function removes its listener reference
\* from the registry, whichever subscribe call registered it, and nothing
\* else; called while that listener has not been subscribed again since an
\* unsubscribe, it leaves the registry and the state unchanged.
C5_UnsubscribeRemovesListener ==
  [][\A h \in 1..Len(handles) :
       UnsubscribedNow(h)
         => /\ Registered(entries') = Registered(entries) \ {handles[h].l}
            /\ handles[h].l \in unsubbed
                 => Registered(entries') = Registered(entries)
            /\ state' = state
            /\ heap' = heap]_vars

C5_Witness ==
  \E h \in 1..Len(handles) :
    /\ handles[h].calls >= 2
    /\ lastOp.op = "unsubscribe"
    /\ lastOp.l = handles[h].l
    /\ \E g \in 1..Len(handles) :
         g > h /\ handles[g].l = handles[h].l /\ handles[g].calls = 0
    /\ handles[h].l \notin Registered(entries)

\* C6: within one pass no listener is invoked more than once, and no
\* listener that stays registered for the whole pass is skipped.
C6_PassToleratesMutation ==
  \A i \in ForEachFrames :
    /\ \A l \in Listeners : stack[i].calls[l] <= 1
    /\ PassComplete(i) =>
         \A l \in stack[i].start \ stack[i].removed : stack[i].calls[l] >= 1

\* C7: destroy leaves the empty mapping as state and an empty registry and
\* invokes no listener; a listener not subscribed again since a destroy is
\* never invoked, also when destroy was called inside a notification pass.
C7_DestroyResetsStore ==
  [][/\ (lastOp'.op = "destroy" /\ ncalls' # ncalls)
          => /\ heap'[state'] = EmptyObj
             /\ Registered(entries') = {}
             /\ \A l \in Listeners : ~InvokedNow(l)
     /\ \A l \in cleared : ~InvokedNow(l)]_vars

C7_Witness ==
  /\ destroyed
  /\ lastOp.op = "destroy"
  /\ \E i \in ForEachFrames :
       /\ PassComplete(i)
       /\ \E l \in stack[i].start \cap cleared : stack[i].calls[l] = 0
       /\ \E k \in Listeners : stack[i].calls[k] = 1

\* C8: after destroy the store still works: the state is the merge of the
\* partials set since onto the empty mapping, subscribe registers its
\* listener, a registered listener is notified by a pass, and an unsubscribe
\* function leaves its listener unregistered.
C8_StoreUsableAfterDestroy ==
  destroyed =>
    /\ heap[state] = MergeAll(EmptyObj, hist)
    /\ lastOp.op = "subscribe" => lastOp.l \in Registered(entries)
    /\ lastOp.op = "unsubscribe" => lastOp.l \notin Registered(entries)
    /\ \A i \in ForEachFrames :
         PassComplete(i) =>
           \A l \in stack[i].start \ stack[i].removed : stack[i].calls[l] >= 1

C8_Witness ==
  /\ destroyed
  /\ hist # <<>>
  /\ heap[state] # EmptyObj
  /\ \E i \in ForEachFrames :
       /\ PassComplete(i)
       /\ \E l \in stack[i].start \ cleared : stack[i].calls[l] = 1

\* C9: setState and destroy install a state object distinct from the
\* previous one, and an object handed out by getState or passed to a
\* listener keeps the keys and values it had.
C9_StateNeverMutatedInPlace ==
  /\ lastOp.op \in {"setState", "inc", "destroy"} => state # lastOp.prev
  /\ snap.ref # 0 => heap[snap.ref] = snap.seen
  /\ \A i \in ListenerFrames : heap[stack[i].arg] = stack[i].seen

C9_Witness ==
  /\ snap.ref # 0
  /\ snap.ref # state
  /\ lastOp.op = "setState"
  /\ heap[state] = heap[lastOp.prev]
  /\ \E i \in ListenerFrames : stack[i].arg # state

\* the count the calls in ps leave, starting from c
RECURSIVE CountAfter(_, _)
CountAfter(c, ps) ==
  IF ps = <<>> THEN c
  ELSE CountAfter(
         IF Head(ps) = IncUpdater THEN c + 1
         ELSE IF ~Head(ps).isFn /\ "count" \in DOMAIN Head(ps).map
              THEN Head(ps).map["count"]
              ELSE c,
         Tail(ps))

\* C10: createState is called once, and every call of inc raises count by
\* exactly one over the state current at the call, in any interleaving with
\* other setState calls and when made from a listener; inc stays in the state.
C10_IncNeverLosesUpdate ==
  /\ createStateCalls = 1
  /\ ~destroyed =>
       /\ heap[state]["count"] = CountAfter(InitialState["count"], hist)
       /\ heap[state]["inc"] = FnInc

C10_Witness ==
  /\ ~destroyed
  /\ lastOp.op = "inc"
  /\ Len(stack) >= 3
  /\ heap[state]["count"] >= 2
  /\ \E i \in 1..Len(hist) : hist[i] # IncUpdater

\* C18: when the updater passed to setState throws, the state reference, the
\* objects, the listener registry and the recorded partials are what they
\* were before the call, and no listener is invoked.
C18_ThrowLeavesStoreUnchanged ==
  [][(lastOp'.op = "setStateThrew" /\ ncalls' # ncalls)
       => /\ state' = state
          /\ heap' = heap
          /\ Registered(entries') = Registered(entries)
          /\ hist' = hist
          /\ \A l \in Listeners : ~InvokedNow(l)]_vars

C18_Witness ==
  /\ lastOp.op = "setStateThrew"
  /\ Registered(entries) # {}
  /\ Len(stack) >= 2
  /\ state # 1

C19_PassTerminates == (stack # <<>>) ~> (stack = <<>>)

\* ---- vocabulary of the claims about useStore ----
\* the component has committed its mounting render and is not unmounted
Mounted(h) == h.phase = "idle" \/ (h.phase = "rendering" /\ ~h.first)

ListenerCount(es, c) == Cardinality({i \in 1..Len(es) : es[i] = c})

\* two slices hold the same value, whichever objects they are
SameContent(a, b) == a.obj = b.obj /\ a.v = b.v

\* selectState(state) of the last render of h, for the store state `ref`
SelectedBy(h, ref) == Select(h.selectState.body, heap, ref, 0)

\* the listener of c was called by the latest setState
NotifiedNow(c) == hnote'[c].n > hnote[c].n

\* C11: a store notification signals a mounted binding to re-render if and
\* only if its selector applied to the new state is not shallow-equal to its
\* selector applied to the state just before that setState call.
C11_SignalIffSliceChanged ==
  \A c \in Components :
    hnote[c].n > 0 =>
      (hnote[c].signalled <=> ~ShallowEqual(hnote[c].new, hnote[c].prev))

\* C12: a setState that leaves the slice of a binding shallow-equal never
\* signals a re-render for that binding, also while an earlier signal for it
\* has not been committed.
C12_NoSignalWhenSliceEqual ==
  \A c \in Components :
    (hnote[c].n > 0 /\ ShallowEqual(hnote[c].new, hnote[c].prev))
      => ~hnote[c].signalled

\* C13: the first render of an instance, and every render whose selector
\* differs from the last committed one, returns its selector applied to the
\* store state at render time.
C13_RenderDerivesSlice ==
  \A c \in Components :
    (/\ hooks[c].phase = "rendering"
     /\ hooks[c].first \/ ~SameFn(hooks[c].selectState, hooks[c].committedSel))
      => SameContent(hooks[c].stateSlice, SelectedBy(hooks[c], hooks[c].storeAt))

C13_Witness ==
  \E c \in Components :
    /\ hooks[c].phase = "rendering"
    /\ ~hooks[c].first
    /\ ~SameFn(hooks[c].selectState, hooks[c].committedSel)
    /\ ~SameContent(hooks[c].stateSlice, hooks[c].reducerState)
    /\ hist # <<>>

\* C14: an instance has one listener in the registry from the commit of its
\* mounting render to its unmount and none otherwise, and a step that mounts
\* or unmounts no instance leaves the registry as it is.
C14_OneListenerPerMount ==
  [][/\ \A c \in Components :
          ListenerCount(entries', c) = IF Mounted(hooks'[c]) THEN 1 ELSE 0
     /\ (\A c \in Components : Mounted(hooks'[c]) = Mounted(hooks[c]))
          => entries' = entries]_vars

C14_Witness ==
  /\ hooks["A"].phase = "unmounted"
  /\ ListenerCount(entries, "A") = 0
  /\ hops >= 2
  /\ hooks["B"].phase = "idle"
  /\ hooks["B"].renders >= 2
  /\ ListenerCount(entries, "B") = 1

\* C15: the listener applies the selector of the last committed render and
\* compares with the slice of the last committed render, and the tracked
\* selector and slice of a mounted instance change only at a commit.
C15_ListenerUsesCommitted ==
  [][\A c \in Components :
       /\ NotifiedNow(c) =>
            /\ SameFn(hnote'[c].sel, hooks[c].committedSel)
            /\ SameValue(hnote'[c].against, hooks[c].committedSlice)
            /\ SameContent(hnote'[c].against, hooks[c].committedSlice)
       /\ (/\ Mounted(hooks[c]) /\ Mounted(hooks'[c])
           /\ \/ hooks'[c].selectStateRef # hooks[c].selectStateRef
              \/ hooks'[c].stateSliceRef # hooks[c].stateSliceRef)
            => (hooks[c].phase = "rendering" /\ hooks'[c].phase = "idle")]_vars

C15_Witness ==
  \E c \in Components :
    /\ hnote[c].n > 0
    /\ hooks[c].phase = "idle"
    /\ hnote[c].sel.id >= 2
    /\ SameFn(hnote[c].sel, hooks[c].committedSel)

\* C16: when the component has committed every signalled re-render, the
\* slice it last rendered is shallow-equal to its selector applied to the
\* current store state.
C16_QuiescentConsistency ==
  \A c \in Components :
    (hooks[c].phase = "idle" /\ hooks[c].queue = <<>>)
      => ShallowEqual(hooks[c].stateSlice, SelectedBy(hooks[c], state))

\* C17: once the selector has changed, every later render with an unchanged
\* selector still returns a slice shallow-equal to that selector applied to
\* the store state.
C17_SliceDerivedBySelector ==
  \A c \in Components :
    (/\ hooks[c].phase \in {"rendering", "idle"}
     /\ hooks[c].everChanged
     /\ ~hooks[c].changed)
      => ShallowEqual(hooks[c].stateSlice, SelectedBy(hooks[c], hooks[c].storeAt))

====
